---- MODULE Spec2Model ----
(***************************************************************************)
(* Model of the GenAI-PPT deck generation pipeline.                        *)
(*                                                                         *)
(*  - services/geminiService.ts : callWithRetry (retry wrapper)            *)
(*  - App component             : React state, the async handlers          *)
(*    (outline, slide generation loop, image enrichment, regeneration)     *)
(*    and the user operations of the editor / export views.                *)
(*                                                                         *)
(* The specifications of the module:                                       *)
(*   SpecRetry   : one invocation of callWithRetry against a mock          *)
(*   SpecService : one call of generateOutline / generateSlideContent /    *)
(*                 regenerateSlide and the delivery of its result          *)
(*   SpecDeck    : the append and merge updaters applied to any deck       *)
(*   SpecOutline : the outline step over any input of the input view       *)
(*   Spec        : the App component with its background tasks             *)
(*   SpecRestart : the App component after Start New during a run          *)
(***************************************************************************)
EXTENDS Integers, Sequences, FiniteSets, TLC

None == "none"

(***************************************************************************)
(* Bounds of the model                                                     *)
(***************************************************************************)
MaxRetries == 3
MaxFailures == 4
MaxOutline == 2        \* longest outline the remote service returns
MaxOutlineCalls == 1   \* outline generations started
MaxRuns == 1           \* slide-generation runs started
MaxRegens == 1         \* regenerations started
MaxEdits == 1          \* user edits of a slide
MaxStale == 1          \* background state updates React has not rendered yet
MaxDeck == 3           \* slides of a deck drawn for the deck updaters
MaxOps == 2            \* deck updates applied in a row

VARIABLES
  \* ---- callWithRetry (geminiService.ts:10-23) ----
  fn,            \* the mock operation: [k, last, rateError, otherError]
  retries,       \* parameter `retries` of the current (recursive) invocation
  delay,         \* parameter `delay` of the current (recursive) invocation
  cwPc,          \* "call" | "wait" | "returned" | "thrown"
  calls,         \* number of times fn() was called
  waits,         \* sequence of the arguments of wait(ms)
  outcome,       \* value returned / error thrown by the outermost invocation
  budget,        \* the `retries` argument of the outermost invocation
  delay0,        \* the `delay` argument of the outermost invocation
  \* ---- App component: React state (useState) ----
  workflowStep,       \* WorkflowStep
  step,               \* GenerationStep
  outline,            \* OutlineItem[]
  presentation,       \* PresentationState
  currentSlideIndex,  \* 0-based index into presentation.slides
  refinePrompt,       \* text of the AI-edit textarea
  input,              \* [inputMode, prompt, fileInput] of the input view
  \* ---- App component: what the event handlers of the last render see ----
  rendered,           \* the state values captured by the last render
  stale,              \* state updates of background tasks not yet rendered
  \* ---- App component: asynchronous work in flight ----
  outlineCalls,       \* number of handleGenerateOutline invocations awaiting
  runs,               \* handleGenerateSlides invocations (the loops):
                      \*   [outline, newSlides, pc, deck], deck being the
                      \*   number of Start New resets before the click
  images,             \* image timers / generateImage requests:
                      \*   [id, pc, prompt, delay], pc "timer" | "request"
  regens,             \* handleRegenerateSlide invocations awaiting
  nextId,             \* uuidv4: the next unused identifier
  count,              \* operations started so far (bounds the exploration),
                      \*   and the Start New resets made
  \* ---- App component: what it shows and requests ----
  alerts,             \* number of alert(...) dialogs shown, per handler
  imageCalls,         \* slide ids for which generateImage was called
  imageErrors,        \* slide ids whose image failure was logged
  \* ---- one call of a generate* function of the service (SpecService) ----
  svc,                \* [fn, response, pc, result]
  \* ---- deck updaters applied to a given deck (SpecDeck) ----
  before,             \* the deck before the first update
  ops                 \* the updates applied so far

rvars == <<fn, retries, delay, cwPc, calls, waits, outcome, budget, delay0>>
state == <<workflowStep, step, outline, presentation, currentSlideIndex,
           refinePrompt>>
tasks == <<outlineCalls, runs, images, regens, nextId>>
effects == <<alerts, imageCalls, imageErrors>>
avars == <<state, input, rendered, stale, tasks, count, effects>>
dvars == <<before, ops>>
vars == <<rvars, avars, dvars, svc>>

(***************************************************************************)
(* callWithRetry                                                           *)
(***************************************************************************)
\* Errors thrown by the operation: status, code and what the message contains.
RateErrors ==
  { [status |-> 429, code |-> 0,   message |-> "Too Many Requests"],
    [status |-> 0,   code |-> 429, message |-> None],
    [status |-> 0,   code |-> 0,   message |-> "got 429 from server"],
    [status |-> 0,   code |-> 0,   message |-> "quota exceeded"] }

OtherErrors ==
  { [status |-> 500, code |-> 500, message |-> "internal error"],
    [status |-> 0,   code |-> 0,   message |-> None] }

\* error?.message?.includes(s): the messages of the model that contain s
MessageIncludes(message, s) ==
  CASE s = "429"   -> message = "got 429 from server"
    [] s = "quota" -> message = "quota exceeded"
    [] OTHER       -> FALSE

isRateLimit(error) ==
  \/ error.status = 429
  \/ error.code = 429
  \/ MessageIncludes(error.message, "429")
  \/ MessageIncludes(error.message, "quota")

\* the condition of the retry branch
ShouldRetry_AnyError(r, error) == r > 0
ShouldRetry_OffByOne(r, error) == r >= 0 /\ isRateLimit(error)
ShouldRetry(r, error) == r > 0 /\ isRateLimit(error)

\* the delay handed to the recursive call
NextDelay_Constant(d) == d
NextDelay(d) == d * 2

InitialDelays == {1000, 2000}

\* The mock operation: fails with a rate-limit error on its first k calls,
\* then ends with `last`: "ok" (resolves) or "error" (rejects with otherError).
Mocks ==
  [ k : 0..MaxFailures, last : {"ok", "error"},
    rateError : RateErrors, otherError : OtherErrors ]

\* result of the n-th call of the mock
FnResult(n) ==
  IF n <= fn.k THEN [ok |-> FALSE, error |-> fn.rateError, n |-> n]
  ELSE IF fn.last = "ok" THEN [ok |-> TRUE, error |-> None, n |-> n]
  ELSE [ok |-> FALSE, error |-> fn.otherError, n |-> n]

InitRetry ==
  /\ fn \in Mocks
  /\ budget \in 0..MaxRetries
  /\ delay0 \in InitialDelays
  /\ retries = budget
  /\ delay = delay0
  /\ cwPc = "call"
  /\ calls = 0
  /\ waits = <<>>
  /\ outcome = None

\* try { return await fn() } catch (error) { ... }
CallFn_FirstError ==
  /\ cwPc = "call"
  /\ calls' = calls + 1
  /\ LET res == FnResult(calls + 1) IN
       IF res.ok
       THEN /\ cwPc' = "returned"
            /\ outcome' = res
            /\ waits' = waits
       ELSE IF ShouldRetry(retries, res.error)
       THEN /\ cwPc' = "wait"
            /\ waits' = Append(waits, delay)
            /\ outcome' = outcome
       ELSE /\ cwPc' = "thrown"
            /\ outcome' = FnResult(1)
            /\ waits' = waits
  /\ UNCHANGED <<fn, retries, delay, budget, delay0>>
  /\ UNCHANGED <<avars, dvars, svc>>
CallFn ==
  /\ cwPc = "call"
  /\ calls' = calls + 1
  /\ LET res == FnResult(calls + 1) IN
       IF res.ok
       THEN /\ cwPc' = "returned"
            /\ outcome' = res
            /\ waits' = waits
       ELSE IF ShouldRetry(retries, res.error)
       THEN /\ cwPc' = "wait"              \* await wait(delay)
            /\ waits' = Append(waits, delay)
            /\ outcome' = outcome
       ELSE /\ cwPc' = "thrown"            \* throw error
            /\ outcome' = res
            /\ waits' = waits
  /\ UNCHANGED <<fn, retries, delay, budget, delay0>>
  /\ UNCHANGED <<avars, dvars, svc>>

\* the wait resolves: return callWithRetry(fn, retries - 1, delay * 2)
WaitDone ==
  /\ cwPc = "wait"
  /\ retries' = retries - 1
  /\ delay' = NextDelay(delay)
  /\ cwPc' = "call"
  /\ UNCHANGED <<fn, calls, waits, outcome, budget, delay0>>
  /\ UNCHANGED <<avars, dvars, svc>>


(***************************************************************************)
(* App component: values                                                   *)
(***************************************************************************)
Layouts == {"BULLETS", "IMAGE_TEXT"}      \* SlideLayout values of the model
EditFields == {"speakerNotes"}            \* fields the editor patches

\* OutlineItem k of a generated outline
OutlineItem(k) ==
  [title |-> IF k = 1 THEN "item 1" ELSE IF k = 2 THEN "item 2" ELSE "item n",
   description |-> "raw content"]

\* what generateOutline can resolve to: JSON.parse(response.text)
Outlines == { [k \in 1..n |-> OutlineItem(k)] : n \in 0..MaxOutline }

\* what generateSlideContent(item, theme) can resolve to (no id, no imageUrl)
SlideContents(item) ==
  { [title |-> item.title, layout |-> l,
     imagePrompt |-> IF l = "IMAGE_TEXT" THEN "a prompt" ELSE None,
     imageUrl |-> None, speakerNotes |-> "notes"] : l \in Layouts }

\* what regenerateSlide(currentSlide, instruction) can resolve to
RegeneratedContents ==
  { [title |-> "regenerated", layout |-> l,
     imagePrompt |-> IF l = "IMAGE_TEXT" THEN "a prompt" ELSE None,
     imageUrl |-> None, speakerNotes |-> "notes"] : l \in Layouts }

\* { ...content, id: slideId }
WithId(content, slideId) ==
  [id |-> slideId, title |-> content.title, layout |-> content.layout,
   imagePrompt |-> content.imagePrompt, imageUrl |-> content.imageUrl,
   speakerNotes |-> content.speakerNotes]

\* the data URL generateImage resolves to
ImageUrl == "data:image"

\* slides.some(s => s.id === slideId)
HasId(slides, slideId) == \E i \in 1..Len(slides) : slides[i].id = slideId

\* prev.slides.some(s => s.id === slideId) ? prev.slides : [...prev.slides, slide]
AppendSlide_NoGuard(slides, slide) == Append(slides, slide)
AppendSlide_Prepend(slides, slide) ==
  IF HasId(slides, slide.id) THEN slides ELSE <<slide>> \o slides
AppendSlide(slides, slide) ==
  IF HasId(slides, slide.id) THEN slides ELSE Append(slides, slide)

\* prev => ({ ...prev, slides: ... ? prev.slides : [...prev.slides, slide] })
AppendUpdate(prev, slide) ==
  [prev EXCEPT !.slides = AppendSlide(prev.slides, slide)]

\* prev.slides.map(s => s.id === slideId ? { ...s, imageUrl } : s)
MergeImage_Upsert(slides, slideId, imageUrl) ==
  IF HasId(slides, slideId)
  THEN [i \in 1..Len(slides) |->
          IF slides[i].id = slideId
          THEN [slides[i] EXCEPT !.imageUrl = imageUrl] ELSE slides[i]]
  ELSE Append(slides, WithId([title |-> "", layout |-> "IMAGE_TEXT",
                              imagePrompt |-> None, imageUrl |-> imageUrl,
                              speakerNotes |-> ""], slideId))
MergeImage_Toggle(slides, slideId, imageUrl) ==
  [i \in 1..Len(slides) |->
     IF slides[i].id = slideId
     THEN [slides[i] EXCEPT !.imageUrl = IF @ = None THEN imageUrl ELSE None]
     ELSE slides[i]]
MergeImage_WholeSlide(slides, slideId, imageUrl) ==
  [i \in 1..Len(slides) |->
     IF slides[i].id = slideId
     THEN [slides[i] EXCEPT !.imageUrl = imageUrl, !.speakerNotes = "notes"]
     ELSE slides[i]]
MergeImage(slides, slideId, imageUrl) ==
  [i \in 1..Len(slides) |->
     IF slides[i].id = slideId
     THEN [slides[i] EXCEPT !.imageUrl = imageUrl] ELSE slides[i]]

\* prev => ({ ...prev, slides: prev.slides.map(...) })
MergeUpdate(prev, slideId, imageUrl) ==
  [prev EXCEPT !.slides = MergeImage(prev.slides, slideId, imageUrl)]

\* copy = [...slides]; copy[index] = slide
ReplaceAt(slides, index, slide) ==
  [slides EXCEPT ![index + 1] = slide]

\* onEdit({ ...slide, [field]: value })
handleUpdate(slide, field, value) ==
  IF field = "title" THEN [slide EXCEPT !.title = value]
  ELSE [slide EXCEPT !.speakerNotes = value]

\* content.layout === SlideLayout.IMAGE_TEXT && content.imagePrompt
NeedsImage(content) ==
  content.layout = "IMAGE_TEXT" /\ content.imagePrompt # None

\* 2000 * newSlides.length
StaggerDelay_Fixed(n) == 2000
StaggerDelay(n) == 2000 * n

\* remove element i of a sequence (a task that has ended)
RemoveAt(seq, i) ==
  [j \in 1..(Len(seq) - 1) |-> IF j < i THEN seq[j] ELSE seq[j + 1]]

(***************************************************************************)
(* App component: rendering                                                *)
(***************************************************************************)
\* the values a render captures in the closures of its event handlers
View ==
  [workflowStep |-> workflowStep, step |-> step, outline |-> outline,
   presentation |-> presentation, currentSlideIndex |-> currentSlideIndex,
   refinePrompt |-> refinePrompt, input |-> input]

\* The editor reads presentation.slides[currentSlideIndex] when the deck is
\* not empty; reading a field of undefined throws during render and React
\* unmounts the component tree.
RenderThrows(v) ==
  /\ v.workflowStep = "EDITOR"
  /\ Len(v.presentation.slides) > 0
  /\ ~(v.currentSlideIndex \in 0..(Len(v.presentation.slides) - 1))

Crashed == RenderThrows(rendered)

\* a state update made inside a user event handler is rendered before the
\* next event is handled
Rerender == rendered' = View' /\ stale' = 0

\* a state update made by a background task (after an await, in a timer or a
\* promise callback) is rendered later, by Render
Deferred == stale < MaxStale /\ stale' = stale + 1 /\ rendered' = rendered

EditorShown == ~Crashed /\ rendered.workflowStep = "EDITOR"
InputShown == ~Crashed /\ rendered.workflowStep = "INPUT"
ExportShown == ~Crashed /\ rendered.workflowStep = "EXPORT"
DeckShown == EditorShown /\ Len(rendered.presentation.slides) > 0

\* "Create Presentation Outline": disabled={step !== IDLE ||
\*   (inputMode === 'text' && !prompt) || (inputMode === 'file' && !fileInput)}
GenerateOutlineEnabled(v) ==
  /\ v.step = "IDLE"
  /\ ~(v.input.inputMode = "text" /\ v.input.prompt = "")
  /\ ~(v.input.inputMode = "file" /\ v.input.fileInput = None)

\* "Generate Slides": part of the outline list the editor shows while
\* presentation.slides.length === 0; disabled={step !== IDLE}
GenerateSlidesEnabled(v) ==
  Len(v.presentation.slides) = 0 /\ v.step = "IDLE"

started(op) == [count EXCEPT ![op] = @ + 1]

\* the texts of the topic textarea: empty, blanks only, a topic
Prompts == {"", " ", "topic"}

\* prompt.trim()
Trim_Identity(p) == p
Trim(p) == IF p = " " THEN "" ELSE p

\* useState('text'), useState(''), useState(null)
NoInput == [inputMode |-> "text", prompt |-> "", fileInput |-> None]

\* what the user can have entered in the input view
Inputs ==
  [inputMode : {"text", "file"}, prompt : Prompts, fileInput : {None, "file"}]

\* the two early returns of handleGenerateOutline
NothingToSubmit(inp) ==
  \/ inp.inputMode = "text" /\ Trim(inp.prompt) = ""
  \/ inp.inputMode = "file" /\ inp.fileInput = None

InitApp ==
  /\ workflowStep = "INPUT"
  /\ step = "IDLE"
  /\ outline = <<>>
  /\ presentation = [slides |-> <<>>, title |-> "Untitled Presentation",
                     theme |-> "light", backgroundImage |-> None]
  /\ currentSlideIndex = 0
  /\ refinePrompt = ""
  /\ input = NoInput
  /\ rendered = View
  /\ stale = 0
  /\ outlineCalls = 0
  /\ runs = <<>>
  /\ images = {}
  /\ regens = <<>>
  /\ nextId = 1
  /\ count = [outlines |-> 0, runs |-> 0, regens |-> 0, edits |-> 0,
             resets |-> 0]
  /\ alerts = [outline |-> 0, slides |-> 0, regen |-> 0]
  /\ imageCalls = {}
  /\ imageErrors = {}

(***************************************************************************)
(* App component: input view                                               *)
(***************************************************************************)
\* onChange of the topic textarea: the user types a topic
TypeTopic ==
  /\ InputShown
  /\ rendered.input.prompt # "topic"
  /\ input' = [input EXCEPT !.prompt = "topic"]
  /\ UNCHANGED <<state, tasks, count>>
  /\ Rerender
  /\ UNCHANGED effects
  /\ UNCHANGED <<rvars, dvars, svc>>

\* click on "Create Presentation Outline".  In file mode the handler awaits
\* parseFileToText and then generateOutline without writing any state in
\* between: the two awaits are one call in flight, which OutlineOk ends when
\* both have resolved and OutlineFail when either has rejected.
handleGenerateOutline ==
  /\ InputShown
  /\ GenerateOutlineEnabled(rendered)
  /\ count.outlines < MaxOutlineCalls
  /\ count' = started("outlines")
  /\ UNCHANGED <<workflowStep, outline, presentation, currentSlideIndex,
                 refinePrompt, input, runs, images, regens, nextId>>
  /\ IF NothingToSubmit(rendered.input)
     THEN UNCHANGED <<step, outlineCalls, rendered, stale>>      \* return
     ELSE /\ step' = IF rendered.input.inputMode = "file"
                     THEN "PARSING_FILE" ELSE "GENERATING_OUTLINE"
          /\ outlineCalls' = outlineCalls + 1
          /\ Rerender
  /\ UNCHANGED effects
  /\ UNCHANGED <<rvars, dvars, svc>>

\* generateOutline resolves
OutlineOk ==
  /\ ~Crashed /\ outlineCalls > 0
  /\ \E o \in Outlines : outline' = o
  /\ step' = "IDLE"
  /\ workflowStep' = "EDITOR"
  /\ outlineCalls' = outlineCalls - 1
  /\ UNCHANGED <<presentation, currentSlideIndex, refinePrompt, runs, images,
                 regens, nextId>>
  /\ UNCHANGED count
  /\ Deferred
  /\ UNCHANGED effects
  /\ UNCHANGED <<rvars, dvars, svc, input>>

\* generateOutline rejects
OutlineFail ==
  /\ ~Crashed /\ outlineCalls > 0
  /\ step' = "IDLE"
  /\ outlineCalls' = outlineCalls - 1
  /\ UNCHANGED <<workflowStep, outline, presentation, currentSlideIndex,
                 refinePrompt, runs, images, regens, nextId>>
  /\ UNCHANGED count
  /\ Deferred
  /\ alerts' = [alerts EXCEPT !.outline = @ + 1]     \* alert('Failed to generate outline...')
  /\ UNCHANGED <<imageCalls, imageErrors>>
  /\ UNCHANGED <<rvars, dvars, svc, input>>

(***************************************************************************)
(* App component: editor view                                              *)
(***************************************************************************)
\* click on "Back"
Back ==
  /\ EditorShown
  /\ workflowStep' = "INPUT"
  /\ UNCHANGED <<step, outline, presentation, currentSlideIndex, refinePrompt>>
  /\ UNCHANGED <<tasks, count>>
  /\ UNCHANGED input
  /\ Rerender
  /\ UNCHANGED effects
  /\ UNCHANGED <<rvars, dvars, svc>>

\* click on "Generate Slides" (shown while the rendered deck is empty)
handleGenerateSlides ==
  /\ EditorShown
  /\ GenerateSlidesEnabled(rendered)
  /\ count.runs < MaxRuns
  /\ IF Len(rendered.outline) = 0
     THEN UNCHANGED <<step, runs, count>>
     ELSE /\ step' = "GENERATING_SLIDES"
          /\ count' = started("runs")
          /\ runs' = Append(runs, [outline |-> rendered.outline,
                                   newSlides |-> <<>>, pc |-> "call",
                                   deck |-> count.resets])
  /\ UNCHANGED <<workflowStep, outline, presentation, currentSlideIndex,
                 refinePrompt, outlineCalls, images, regens, nextId>>
  /\ UNCHANGED input
  /\ Rerender
  /\ UNCHANGED effects
  /\ UNCHANGED <<rvars, dvars, svc>>

\* the 1000 ms pause before the next item's request ends
RunPauseDone ==
  /\ ~Crashed
  /\ \E r \in 1..Len(runs) :
       /\ runs[r].pc = "pause"
       /\ runs' = [runs EXCEPT ![r].pc = "call"]
  /\ UNCHANGED <<state, rendered, stale, outlineCalls, images, regens, nextId, count>>
  /\ UNCHANGED effects
  /\ UNCHANGED <<rvars, dvars, svc, input>>

\* generateSlideContent resolves for the current item of loop r: the rest of
\* the loop body runs, then either the next iteration starts (its pause) or
\* the loop ends (setCurrentSlideIndex(0), finally setStep(IDLE)).
RunContentOk ==
  /\ ~Crashed
  /\ \E r \in 1..Len(runs) :
       /\ runs[r].pc = "call"
       /\ LET run == runs[r]
              item == run.outline[Len(run.newSlides) + 1]
          IN \E content \in SlideContents(item) :
               LET slideId == nextId
                   slide == WithId(content, slideId)
                   newSlides == Append(run.newSlides, slide)
               IN /\ nextId' = nextId + 1
                  /\ presentation' = AppendUpdate(presentation, slide)
                  /\ images' =
                       IF NeedsImage(content)
                       THEN images \cup
                              {[id |-> slideId, pc |-> "timer",
                                prompt |-> content.imagePrompt,
                                delay |-> StaggerDelay(Len(newSlides))]}
                       ELSE images
                  /\ IF Len(newSlides) < Len(run.outline)
                     THEN /\ runs' = [runs EXCEPT ![r] =
                                        [run EXCEPT !.newSlides = newSlides,
                                                    !.pc = "pause"]]
                          /\ UNCHANGED <<currentSlideIndex, step>>
                     ELSE /\ runs' = RemoveAt(runs, r)
                          /\ currentSlideIndex' = 0
                          /\ step' = "IDLE"
  /\ UNCHANGED <<workflowStep, outline, refinePrompt, outlineCalls, regens>>
  /\ UNCHANGED count
  /\ Deferred
  /\ UNCHANGED effects
  /\ UNCHANGED <<rvars, dvars, svc, input>>

\* generateSlideContent rejects: catch (alert), finally setStep(IDLE)
RunContentFail_NoFinally ==
  /\ ~Crashed
  /\ \E r \in 1..Len(runs) :
       /\ runs[r].pc = "call"
       /\ runs' = RemoveAt(runs, r)
  /\ UNCHANGED <<workflowStep, step, outline, presentation, currentSlideIndex,
                 refinePrompt, outlineCalls, images, regens, nextId>>
  /\ UNCHANGED count
  /\ Deferred
  /\ alerts' = [alerts EXCEPT !.slides = @ + 1]
  /\ UNCHANGED <<imageCalls, imageErrors>>
  /\ UNCHANGED <<rvars, dvars, svc, input>>
RunContentFail_Discard ==
  /\ ~Crashed
  /\ \E r \in 1..Len(runs) :
       /\ runs[r].pc = "call"
       /\ runs' = RemoveAt(runs, r)
  /\ step' = "IDLE"
  /\ presentation' = [presentation EXCEPT !.slides = <<>>]
  /\ UNCHANGED <<workflowStep, outline, currentSlideIndex,
                 refinePrompt, outlineCalls, images, regens, nextId>>
  /\ UNCHANGED count
  /\ Deferred
  /\ alerts' = [alerts EXCEPT !.slides = @ + 1]
  /\ UNCHANGED <<imageCalls, imageErrors>>
  /\ UNCHANGED <<rvars, dvars, svc, input>>
RunContentFail ==
  /\ ~Crashed
  /\ \E r \in 1..Len(runs) :
       /\ runs[r].pc = "call"
       /\ runs' = RemoveAt(runs, r)
  /\ step' = "IDLE"
  /\ UNCHANGED <<workflowStep, outline, presentation, currentSlideIndex,
                 refinePrompt, outlineCalls, images, regens, nextId>>
  /\ UNCHANGED count
  /\ Deferred
  /\ alerts' = [alerts EXCEPT !.slides = @ + 1]      \* alert('Error generating slides...')
  /\ UNCHANGED <<imageCalls, imageErrors>>
  /\ UNCHANGED <<rvars, dvars, svc, input>>

\* the setTimeout callback of an image task fires: generateImage is called
ImageTimerFires_Interval ==
  /\ ~Crashed
  /\ \E t \in images :
       /\ t.pc = "timer"
       /\ [t EXCEPT !.pc = "request"] \notin images
       /\ images' = images \cup {[t EXCEPT !.pc = "request"]}
       /\ imageCalls' = imageCalls \cup {t.id}
  /\ UNCHANGED <<alerts, imageErrors>>
  /\ UNCHANGED <<state, rendered, stale, outlineCalls, runs, regens, nextId, count>>
  /\ UNCHANGED <<rvars, dvars, svc, input>>
ImageTimerFires ==
  /\ ~Crashed
  /\ \E t \in images :
       /\ t.pc = "timer"
       /\ images' = (images \ {t}) \cup {[t EXCEPT !.pc = "request"]}
       /\ imageCalls' = imageCalls \cup {t.id}
  /\ UNCHANGED <<alerts, imageErrors>>
  /\ UNCHANGED <<state, rendered, stale, outlineCalls, runs, regens, nextId, count>>
  /\ UNCHANGED <<rvars, dvars, svc, input>>

\* generateImage resolves: the image is merged into the deck by slide id
ImageOk ==
  /\ ~Crashed
  /\ \E t \in images :
       /\ t.pc = "request"
       /\ presentation' = MergeUpdate(presentation, t.id, ImageUrl)
       /\ images' = images \ {t}
  /\ UNCHANGED <<workflowStep, step, outline, currentSlideIndex, refinePrompt,
                 outlineCalls, runs, regens, nextId>>
  /\ UNCHANGED count
  /\ Deferred
  /\ UNCHANGED effects
  /\ UNCHANGED <<rvars, dvars, svc, input>>

\* generateImage rejects: the error is logged
ImageFail_Fatal ==
  /\ ~Crashed
  /\ \E t \in images :
       /\ t.pc = "request"
       /\ images' = images \ {t}
       /\ imageErrors' = imageErrors \cup {t.id}
  /\ runs' = <<>>
  /\ step' = "IDLE"
  /\ UNCHANGED <<alerts, imageCalls>>
  /\ UNCHANGED <<workflowStep, outline, presentation, currentSlideIndex,
                 refinePrompt, rendered, stale, outlineCalls, regens, nextId,
                 count>>
  /\ UNCHANGED <<rvars, dvars, svc, input>>
ImageFail ==
  /\ ~Crashed
  /\ \E t \in images :
       /\ t.pc = "request"
       /\ images' = images \ {t}
       /\ imageErrors' = imageErrors \cup {t.id}
  /\ UNCHANGED <<alerts, imageCalls>>
  /\ UNCHANGED <<state, rendered, stale, outlineCalls, runs, regens, nextId, count>>
  /\ UNCHANGED <<rvars, dvars, svc, input>>

\* onSelect of a thumbnail
SelectSlide ==
  /\ DeckShown
  /\ \E i \in 0..(Len(rendered.presentation.slides) - 1) :
       currentSlideIndex' = i
  /\ UNCHANGED <<workflowStep, step, outline, presentation, refinePrompt>>
  /\ UNCHANGED <<tasks, count>>
  /\ UNCHANGED input
  /\ Rerender
  /\ UNCHANGED effects
  /\ UNCHANGED <<rvars, dvars, svc>>

\* click on the previous-slide button: setCurrentSlideIndex(i => i - 1)
PreviousSlide ==
  /\ DeckShown
  /\ rendered.currentSlideIndex # 0                       \* button enabled
  /\ currentSlideIndex' = currentSlideIndex - 1
  /\ UNCHANGED <<workflowStep, step, outline, presentation, refinePrompt>>
  /\ UNCHANGED <<tasks, count>>
  /\ UNCHANGED input
  /\ Rerender
  /\ UNCHANGED effects
  /\ UNCHANGED <<rvars, dvars, svc>>

\* click on the next-slide button: setCurrentSlideIndex(i => i + 1)
NextSlide ==
  /\ DeckShown
  /\ rendered.currentSlideIndex # Len(rendered.presentation.slides) - 1
  /\ currentSlideIndex' = currentSlideIndex + 1
  /\ UNCHANGED <<workflowStep, step, outline, presentation, refinePrompt>>
  /\ UNCHANGED <<tasks, count>>
  /\ UNCHANGED input
  /\ Rerender
  /\ UNCHANGED effects
  /\ UNCHANGED <<rvars, dvars, svc>>

\* onChange of the AI-edit textarea: an instruction is typed in
SetRefinePrompt ==
  /\ DeckShown
  /\ refinePrompt' = "instruction"
  /\ UNCHANGED <<workflowStep, step, outline, presentation, currentSlideIndex>>
  /\ UNCHANGED <<tasks, count>>
  /\ UNCHANGED input
  /\ Rerender
  /\ UNCHANGED effects
  /\ UNCHANGED <<rvars, dvars, svc>>

\* click on "Update Slide"
handleRegenerateSlide ==
  /\ DeckShown
  /\ rendered.step # "REGENERATING_SLIDE"
  /\ rendered.refinePrompt # ""                           \* button enabled
  /\ count.regens < MaxRegens
  /\ step' = "REGENERATING_SLIDE"
  /\ count' = started("regens")
  /\ regens' = Append(regens,
       [currentSlide |->
          rendered.presentation.slides[rendered.currentSlideIndex + 1],
        slides |-> rendered.presentation.slides,
        currentSlideIndex |-> rendered.currentSlideIndex])
  /\ UNCHANGED <<workflowStep, outline, presentation, currentSlideIndex,
                 refinePrompt, outlineCalls, runs, images, nextId>>
  /\ UNCHANGED input
  /\ Rerender
  /\ UNCHANGED effects
  /\ UNCHANGED <<rvars, dvars, svc>>

\* updatedSlides = [...presentation.slides];
\* updatedSlides[currentSlideIndex] = { ...newContent, id: currentSlide.id }
UpdatedSlides_IdOfFirst(task, newContent) ==
  ReplaceAt(task.slides, task.currentSlideIndex,
            WithId(newContent, task.slides[1].id))
UpdatedSlides_KeepImage(task, newContent) ==
  ReplaceAt(task.slides, task.currentSlideIndex,
            WithId([newContent EXCEPT !.imageUrl = task.currentSlide.imageUrl],
                   task.currentSlide.id))
UpdatedSlides(task, newContent) ==
  ReplaceAt(task.slides, task.currentSlideIndex,
            WithId(newContent, task.currentSlide.id))

\* regenerateSlide resolves
RegenerateOk ==
  /\ ~Crashed
  /\ \E r \in 1..Len(regens) : \E newContent \in RegeneratedContents :
       /\ presentation' =
            [presentation EXCEPT !.slides = UpdatedSlides(regens[r], newContent)]
       /\ regens' = RemoveAt(regens, r)
  /\ refinePrompt' = ""
  /\ step' = "IDLE"
  /\ UNCHANGED <<workflowStep, outline, currentSlideIndex, outlineCalls, runs,
                 images, nextId>>
  /\ UNCHANGED count
  /\ Deferred
  /\ UNCHANGED effects
  /\ UNCHANGED <<rvars, dvars, svc, input>>

\* regenerateSlide rejects: catch (alert), finally setStep(IDLE)
RegenerateFail_PartialWrite ==
  /\ ~Crashed
  /\ \E r \in 1..Len(regens) :
       /\ regens' = RemoveAt(regens, r)
       /\ presentation' =
            [presentation EXCEPT !.slides =
               ReplaceAt(regens[r].slides, regens[r].currentSlideIndex,
                         [regens[r].currentSlide EXCEPT !.title = "regenerated"])]
  /\ step' = "IDLE"
  /\ UNCHANGED <<workflowStep, outline, currentSlideIndex,
                 refinePrompt, outlineCalls, runs, images, nextId>>
  /\ UNCHANGED count
  /\ Deferred
  /\ alerts' = [alerts EXCEPT !.regen = @ + 1]
  /\ UNCHANGED <<imageCalls, imageErrors>>
  /\ UNCHANGED <<rvars, dvars, svc, input>>
RegenerateFail ==
  /\ ~Crashed
  /\ \E r \in 1..Len(regens) : regens' = RemoveAt(regens, r)
  /\ step' = "IDLE"
  /\ UNCHANGED <<workflowStep, outline, presentation, currentSlideIndex,
                 refinePrompt, outlineCalls, runs, images, nextId>>
  /\ UNCHANGED count
  /\ Deferred
  /\ alerts' = [alerts EXCEPT !.regen = @ + 1]       \* alert('Failed to regenerate slide.')
  /\ UNCHANGED <<imageCalls, imageErrors>>
  /\ UNCHANGED <<rvars, dvars, svc, input>>

\* newSlides = [...presentation.slides]; newSlides[currentSlideIndex] = updatedSlide
NewSlides(view, updatedSlide) ==
  ReplaceAt(view.presentation.slides, view.currentSlideIndex, updatedSlide)

\* an edit of the current slide in the canvas or in the speaker notes:
\* the edited copy of the rendered slide goes to handleSlideUpdate
handleSlideUpdate ==
  /\ DeckShown
  /\ count.edits < MaxEdits
  /\ count' = started("edits")
  /\ \E field \in EditFields :
       LET slide == rendered.presentation.slides[rendered.currentSlideIndex + 1]
           updatedSlide == handleUpdate(slide, field, "edited")
       IN presentation' =
            [presentation EXCEPT !.slides = NewSlides(rendered, updatedSlide)]
  /\ UNCHANGED <<workflowStep, step, outline, currentSlideIndex, refinePrompt>>
  /\ UNCHANGED tasks
  /\ UNCHANGED input
  /\ Rerender
  /\ UNCHANGED effects
  /\ UNCHANGED <<rvars, dvars, svc>>

\* click on "Finish & Export"
FinishAndExport ==
  /\ DeckShown
  /\ workflowStep' = "EXPORT"
  /\ UNCHANGED <<step, outline, presentation, currentSlideIndex, refinePrompt>>
  /\ UNCHANGED <<tasks, count>>
  /\ UNCHANGED input
  /\ Rerender
  /\ UNCHANGED effects
  /\ UNCHANGED <<rvars, dvars, svc>>

(***************************************************************************)
(* App component: export view                                              *)
(***************************************************************************)
\* click on "Keep Editing"
KeepEditing ==
  /\ ExportShown
  /\ workflowStep' = "EDITOR"
  /\ UNCHANGED <<step, outline, presentation, currentSlideIndex, refinePrompt>>
  /\ UNCHANGED <<tasks, count>>
  /\ UNCHANGED input
  /\ Rerender
  /\ UNCHANGED effects
  /\ UNCHANGED <<rvars, dvars, svc>>

\* click on "Start New"
StartNew ==
  /\ ExportShown
  /\ presentation' = [slides |-> <<>>, title |-> "Untitled",
                      theme |-> "light", backgroundImage |-> None]
  /\ outline' = <<>>
  /\ input' = [input EXCEPT !.prompt = "", !.fileInput = None]
  /\ workflowStep' = "INPUT"
  /\ UNCHANGED <<step, currentSlideIndex, refinePrompt>>
  /\ UNCHANGED tasks
  /\ count' = started("resets")
  /\ Rerender
  /\ UNCHANGED effects
  /\ UNCHANGED <<rvars, dvars, svc>>

\* React renders the state updates made by background tasks
Render ==
  /\ ~Crashed
  /\ stale > 0
  /\ rendered' = View
  /\ stale' = 0
  /\ UNCHANGED <<state, tasks, count>>
  /\ UNCHANGED effects
  /\ UNCHANGED <<rvars, dvars, svc, input>>

(***************************************************************************)
(* Deck updaters applied to a given deck                                   *)
(***************************************************************************)
\* slides a deck can hold: generated and then edited, or regenerated into a
\* layout without image prompt while the image of the earlier content was in
\* flight and merged since
SlidesOf(ids) ==
  { WithId([title |-> "item 1", layout |-> "IMAGE_TEXT",
            imagePrompt |-> "a prompt", imageUrl |-> None,
            speakerNotes |-> "edited"], id) : id \in ids }
  \cup
  { WithId([title |-> "regenerated", layout |-> "BULLETS",
            imagePrompt |-> None, imageUrl |-> "data:old",
            speakerNotes |-> "notes"], id) : id \in ids }

\* slide lists with pairwise different ids, in any order
SlideLists ==
  UNION { { sl \in [1..n -> SlidesOf(1..MaxDeck)] :
              \A i, j \in 1..n : i # j => sl[i].id # sl[j].id } :
          n \in 0..MaxDeck }

InitDeck ==
  /\ \E sl \in SlideLists, th \in {"light", "dark"}, bg \in {None, ImageUrl} :
       presentation = [slides |-> sl, title |-> "Untitled", theme |-> th,
                       backgroundImage |-> bg]
  /\ before = presentation
  /\ ops = <<>>

\* the progressive append of a slide (new or already delivered)
DeckAppend ==
  /\ Len(ops) < MaxOps
  /\ \E s \in SlidesOf(1..(MaxDeck + 1)) :
       /\ presentation' = AppendUpdate(presentation, s)
       /\ ops' = Append(ops, [op |-> "append", id |-> s.id, slide |-> s])
  /\ UNCHANGED before
  /\ UNCHANGED <<rvars, workflowStep, step, outline, currentSlideIndex,
                 refinePrompt, input, rendered, stale, tasks, count, effects,
                 svc>>

\* an image result is merged
DeckMerge ==
  /\ Len(ops) < MaxOps
  /\ \E id \in 1..(MaxDeck + 1) :
       /\ presentation' = MergeUpdate(presentation, id, ImageUrl)
       /\ ops' = Append(ops, [op |-> "merge", id |-> id, slide |-> None])
  /\ UNCHANGED before
  /\ UNCHANGED <<rvars, workflowStep, step, outline, currentSlideIndex,
                 refinePrompt, input, rendered, stale, tasks, count, effects,
                 svc>>

(***************************************************************************)
(* geminiService: generateOutline, generateSlideContent, regenerateSlide   *)
(***************************************************************************)
ServiceFns == {"generateOutline", "generateSlideContent", "regenerateSlide"}

\* the enum of slideSchema.layout (the values of SlideLayout)
SchemaLayouts ==
  {"TITLE", "BULLETS", "TWO_COLUMN", "QUOTE", "BIG_NUMBER", "CODE", "IMAGE_TEXT"}

\* JSON values a response can carry (None: the property is absent)
SlidePayloads ==
  { [title |-> "a title", layout |-> l, imagePrompt |-> None,
     imageUrl |-> None, speakerNotes |-> n] :
      l \in {"BULLETS", "GRID"}, n \in {"notes", None} }
OutlinePayloads ==
  { <<>>, <<OutlineItem(1)>>, <<[title |-> "item 1", description |-> None]>> }

\* slideSchema: required title, layout, speakerNotes; layout in the enum
ConformsToSlideSchema(p) ==
  p.title # None /\ p.speakerNotes # None /\ p.layout \in SchemaLayouts
\* outlineSchema: array of objects with required title and description
ConformsToOutlineSchema(p) ==
  \A i \in 1..Len(p) : p[i].title # None /\ p[i].description # None
Conforms(f, p) ==
  IF f = "generateOutline" THEN ConformsToOutlineSchema(p)
  ELSE ConformsToSlideSchema(p)

\* response.text: absent or empty, text that is not JSON, or the JSON text of v
NoText == [kind |-> "empty"]
Garbage == [kind |-> "garbage"]
JsonText(v) == [kind |-> "json", value |-> v]
Texts(f) ==
  {NoText, Garbage} \cup
  { JsonText(v) :
      v \in IF f = "generateOutline" THEN OutlinePayloads ELSE SlidePayloads }

\* what awaiting callWithRetry(() => ai.models.generateContent(...)) gives:
\* a rejection (the wrapper gave up) or a response
Responses(f) ==
  {[rejected |-> TRUE, text |-> NoText]} \cup
  { [rejected |-> FALSE, text |-> t] : t \in Texts(f) }

\* JSON.parse(text)
JsonParse(text) ==
  IF text.kind = "json" THEN [ok |-> TRUE, value |-> text.value]
  ELSE [ok |-> FALSE, value |-> "SyntaxError"]

\* if (!response.text) throw new Error("No response from AI");
\* return JSON.parse(response.text)
Generate(response) ==
  IF response.rejected THEN [ok |-> FALSE, value |-> "remote error"]
  ELSE IF response.text.kind = "empty"
       THEN [ok |-> FALSE, value |-> "No response from AI"]
       ELSE JsonParse(response.text)

\* the function returns its value
ServiceReturns ==
  /\ svc.pc = "await"
  /\ Generate(svc.response).ok
  /\ svc' = [svc EXCEPT !.pc = "returned",
                         !.result = Generate(svc.response).value]
  /\ UNCHANGED <<rvars, avars, dvars>>

\* the function throws
ServiceThrows ==
  /\ svc.pc = "await"
  /\ ~Generate(svc.response).ok
  /\ svc' = [svc EXCEPT !.pc = "thrown",
                         !.result = Generate(svc.response).value]
  /\ UNCHANGED <<rvars, avars, dvars>>

\* setOutline(generatedOutline)
DeliverOutline ==
  /\ svc.pc = "returned" /\ svc.fn = "generateOutline"
  /\ outline' = svc.result
  /\ svc' = [svc EXCEPT !.pc = "delivered"]
  /\ UNCHANGED <<workflowStep, step, presentation, currentSlideIndex,
                 refinePrompt, rendered, stale, tasks, count, effects>>
  /\ UNCHANGED <<rvars, dvars, input>>

\* slide = { ...content, id: slideId } and its progressive append
DeliverSlide ==
  /\ svc.pc = "returned" /\ svc.fn = "generateSlideContent"
  /\ presentation' = AppendUpdate(presentation, WithId(svc.result, nextId))
  /\ nextId' = nextId + 1
  /\ svc' = [svc EXCEPT !.pc = "delivered"]
  /\ UNCHANGED <<workflowStep, step, outline, currentSlideIndex, refinePrompt,
                 rendered, stale, outlineCalls, runs, images, regens, count,
                 effects>>
  /\ UNCHANGED <<rvars, dvars, input>>

\* the regenerated content replaces the current slide (index 0)
DeliverRegenerated ==
  /\ svc.pc = "returned" /\ svc.fn = "regenerateSlide"
  /\ presentation' =
       [presentation EXCEPT !.slides =
          UpdatedSlides([slides |-> presentation.slides,
                         currentSlideIndex |-> currentSlideIndex,
                         currentSlide |->
                           presentation.slides[currentSlideIndex + 1]],
                        svc.result)]
  /\ svc' = [svc EXCEPT !.pc = "delivered"]
  /\ UNCHANGED <<workflowStep, step, outline, currentSlideIndex, refinePrompt,
                 rendered, stale, tasks, count, effects>>
  /\ UNCHANGED <<rvars, dvars, input>>

(***************************************************************************)
(* Specifications                                                          *)
(***************************************************************************)
\* the retry wrapper is not running
RetryIdle ==
  /\ fn = [k |-> 0, last |-> "ok",
           rateError |-> CHOOSE e \in RateErrors : e.status = 429,
           otherError |-> CHOOSE e \in OtherErrors : e.status = 500]
  /\ budget = 0 /\ delay0 = 2000 /\ retries = 0 /\ delay = 2000
  /\ cwPc = "returned" /\ calls = 0 /\ waits = <<>> /\ outcome = None

\* no function of the service is being called on its own
ServiceIdle ==
  svc = [fn |-> None, response |-> None, pc |-> "idle", result |-> None]

\* no deck updater has been applied outside the App
DeckIdle == before = None /\ ops = <<>>

\* callWithRetry alone: the App is idle
InitSpecRetry == InitRetry /\ InitApp /\ DeckIdle /\ ServiceIdle

NextRetry == CallFn \/ WaitDone

SpecRetry == InitSpecRetry /\ [][NextRetry]_vars

\* the deck updaters alone, on any deck
InitSpecDeck ==
  /\ RetryIdle
  /\ workflowStep = "EDITOR" /\ step = "IDLE" /\ outline = <<>>
  /\ currentSlideIndex = 0 /\ refinePrompt = "" /\ input = NoInput
  /\ rendered = None
  /\ stale = 0 /\ outlineCalls = 0 /\ runs = <<>> /\ images = {}
  /\ regens = <<>> /\ nextId = 1
  /\ count = [outlines |-> 0, runs |-> 0, regens |-> 0, edits |-> 0,
             resets |-> 0]
  /\ alerts = [outline |-> 0, slides |-> 0, regen |-> 0]
  /\ imageCalls = {} /\ imageErrors = {}
  /\ ServiceIdle
  /\ InitDeck

NextDeck == DeckAppend \/ DeckMerge

SpecDeck == InitSpecDeck /\ [][NextDeck]_vars

\* one call of a function of the service and the delivery of its result to
\* the outline or to a deck of at most one slide
InitSpecService ==
  /\ RetryIdle /\ DeckIdle
  /\ workflowStep = "EDITOR" /\ step = "IDLE" /\ outline = <<>>
  /\ currentSlideIndex = 0 /\ refinePrompt = "" /\ input = NoInput
  /\ rendered = None
  /\ stale = 0 /\ outlineCalls = 0 /\ runs = <<>> /\ images = {}
  /\ regens = <<>> /\ nextId = 2
  /\ count = [outlines |-> 0, runs |-> 0, regens |-> 0, edits |-> 0,
             resets |-> 0]
  /\ alerts = [outline |-> 0, slides |-> 0, regen |-> 0]
  /\ imageCalls = {} /\ imageErrors = {}
  /\ \E sl \in {<<>>} \cup { <<sd>> : sd \in SlidesOf({1}) } :
       presentation = [slides |-> sl, title |-> "Untitled Presentation",
                       theme |-> "light", backgroundImage |-> None]
  /\ \E f \in ServiceFns : \E resp \in Responses(f) :
       /\ f = "regenerateSlide" => Len(presentation.slides) > 0
       /\ svc = [fn |-> f, response |-> resp, pc |-> "await", result |-> None]

NextService ==
  \/ ServiceReturns \/ ServiceThrows
  \/ DeliverOutline \/ DeliverSlide \/ DeliverRegenerated

SpecService == InitSpecService /\ [][NextService]_vars

\* The outline step alone: the input view over any input the user can have
\* entered, shown at the start or after Back from the editor, with the
\* outline and the deck generated before.
InitSpecOutline ==
  /\ RetryIdle /\ DeckIdle /\ ServiceIdle
  /\ workflowStep = "INPUT" /\ step = "IDLE"
  /\ outline \in Outlines
  /\ \E sl \in {<<>>} \cup { <<sd>> : sd \in SlidesOf({1}) } :
     \E bg \in {None, ImageUrl} :
       presentation = [slides |-> sl, title |-> "Untitled Presentation",
                       theme |-> "light", backgroundImage |-> bg]
  /\ currentSlideIndex = 0 /\ refinePrompt = ""
  /\ input \in Inputs
  /\ rendered = View /\ stale = 0
  /\ outlineCalls = 0 /\ runs = <<>> /\ images = {} /\ regens = <<>>
  /\ nextId = 2
  /\ count = [outlines |-> 0, runs |-> 0, regens |-> 0, edits |-> 0,
              resets |-> 0]
  /\ alerts = [outline |-> 0, slides |-> 0, regen |-> 0]
  /\ imageCalls = {} /\ imageErrors = {}

NextOutline == handleGenerateOutline \/ OutlineOk \/ OutlineFail \/ Render

SpecOutline == InitSpecOutline /\ [][NextOutline]_vars

\* the App component
Next ==
  \/ TypeTopic \/ handleGenerateOutline \/ OutlineOk \/ OutlineFail
  \/ Back
  \/ handleGenerateSlides \/ RunPauseDone \/ RunContentOk \/ RunContentFail
  \/ ImageTimerFires \/ ImageOk \/ ImageFail
  \/ SelectSlide \/ PreviousSlide \/ NextSlide
  \/ SetRefinePrompt \/ handleRegenerateSlide \/ RegenerateOk \/ RegenerateFail
  \/ handleSlideUpdate \/ FinishAndExport \/ KeepEditing \/ StartNew
  \/ Render

Init == InitApp /\ RetryIdle /\ DeckIdle /\ ServiceIdle

Spec == Init /\ [][Next]_vars

\* Progress: every remote call and every wait returns (the awaits of
\* callWithRetry and of the handlers resolve or reject, the pause of the loop
\* ends) and React renders the state updates it has been given.
Progress ==
  /\ WF_vars(CallFn) /\ WF_vars(WaitDone)
  /\ WF_vars(OutlineOk \/ OutlineFail)
  /\ WF_vars(RunPauseDone)
  /\ WF_vars(RunContentOk \/ RunContentFail)
  /\ WF_vars(RegenerateOk \/ RegenerateFail)
  /\ WF_vars(Render)

\* an invocation of callWithRetry while the App is in its initial state and
\* the user starts no operation
InitRetryAlone ==
  /\ InitRetry /\ DeckIdle /\ ServiceIdle
  /\ workflowStep = "INPUT" /\ step = "IDLE" /\ outline = <<>>
  /\ presentation = [slides |-> <<>>, title |-> "Untitled Presentation",
                     theme |-> "light", backgroundImage |-> None]
  /\ currentSlideIndex = 0 /\ refinePrompt = "" /\ input = NoInput
  /\ rendered = View /\ stale = 0
  /\ outlineCalls = 0 /\ runs = <<>> /\ images = {} /\ regens = <<>>
  /\ nextId = 1
  /\ count = [outlines |-> MaxOutlineCalls, runs |-> 0, regens |-> 0,
              edits |-> 0, resets |-> 0]
  /\ alerts = [outline |-> 0, slides |-> 0, regen |-> 0]
  /\ imageCalls = {} /\ imageErrors = {}

InitSpecLive == InitRetryAlone \/ Init

NextLive == CallFn \/ WaitDone \/ Next

\* callWithRetry and the App under the progress assumption
SpecLive == InitSpecLive /\ [][NextLive]_vars /\ Progress

\* The App after Start New was pressed during a run: the loop started for an
\* outline of two items has appended its first slide (id 1) and is pausing
\* before, or awaiting, the request of item 2; meanwhile a regeneration of
\* slide 1 has ended (the step is IDLE), the user has gone to the export view
\* and pressed Start New.  From there the user generates a new outline and
\* new slides (the exploration counters of these start again).
AfterStartNewDuringRun ==
  /\ workflowStep = "INPUT" /\ step = "IDLE" /\ outline = <<>>
  /\ presentation = [slides |-> <<>>, title |-> "Untitled",
                     theme |-> "light", backgroundImage |-> None]
  /\ currentSlideIndex = 0 /\ refinePrompt = "" /\ input = NoInput
  /\ rendered = View /\ stale = 0
  /\ outlineCalls = 0 /\ regens = <<>> /\ nextId = 2
  /\ alerts = [outline |-> 0, slides |-> 0, regen |-> 0]
  /\ imageCalls = {} /\ imageErrors = {}
  /\ \E o \in Outlines : \E content \in SlideContents(OutlineItem(1)) :
     \E p \in {"pause", "call"} :
       /\ Len(o) = 2
       /\ runs = << [outline |-> o, newSlides |-> <<WithId(content, 1)>>,
                     pc |-> p, deck |-> 0] >>
       /\ images = IF NeedsImage(content)
                   THEN {[id |-> 1, pc |-> "timer",
                          prompt |-> content.imagePrompt,
                          delay |-> StaggerDelay(1)]}
                   ELSE {}

InitSpecRestart ==
  /\ RetryIdle /\ DeckIdle /\ ServiceIdle
  /\ count = [outlines |-> 0, runs |-> 0, regens |-> MaxRegens,
              edits |-> MaxEdits, resets |-> 1]
  /\ AfterStartNewDuringRun

NextRestart ==
  \/ TypeTopic \/ handleGenerateOutline \/ OutlineOk \/ OutlineFail
  \/ Back
  \/ handleGenerateSlides \/ RunPauseDone \/ RunContentOk \/ RunContentFail
  \/ ImageTimerFires \/ ImageOk \/ ImageFail
  \/ Render

SpecRestart == InitSpecRestart /\ [][NextRestart]_vars

(***************************************************************************)
(* C1 -- callWithRetry, operation failing with a rate-limit error on its   *)
(* first k calls and then succeeding, retry budget r: the operation is     *)
(* called exactly min(k, r) + 1 times; the wrapper returns the operation's *)
(* result iff k <= r, otherwise it fails after exactly r + 1 calls.        *)
(***************************************************************************)
Min(a, b) == IF a <= b THEN a ELSE b

Finished == cwPc \in {"returned", "thrown"}

C1_AttemptCount ==
  (Finished /\ fn.last = "ok") =>
     /\ calls = Min(fn.k, budget) + 1
     /\ (cwPc = "returned") <=> (fn.k <= budget)
     /\ cwPc = "returned" => (outcome.ok /\ outcome.n = fn.k + 1)
     /\ cwPc = "thrown" => (calls = budget + 1 /\ outcome.error = fn.rateError)

C1_Witness ==
  /\ cwPc = "thrown" /\ fn.last = "ok"
  /\ budget >= 2 /\ fn.k > budget /\ calls = budget + 1

(***************************************************************************)
(* C2 -- callWithRetry started with initial delay d: the wait before the   *)
(* j-th retry is d * 2^(j-1); there is one wait per retried failure        *)
(* (d, 2d, 4d for three rate-limited failures) and no wait after the       *)
(* failure that ends the invocation.                                       *)
(***************************************************************************)
C2_DelaySchedule ==
  /\ \A j \in 1..Len(waits) : waits[j] = delay0 * 2^(j - 1)
  /\ Len(waits) <= budget
  /\ cwPc = "wait" => Len(waits) = calls
  /\ cwPc = "call" => Len(waits) = calls
  /\ Finished => Len(waits) = calls - 1
  /\ (Finished /\ fn.k = 3 /\ budget >= 3)
        => waits = <<delay0, 2 * delay0, 4 * delay0>>

C2_Witness ==
  /\ Finished /\ fn.k = 3 /\ budget = 3
  /\ waits = <<delay0, 2 * delay0, 4 * delay0>>

(***************************************************************************)
(* C3 -- callWithRetry never retries a failure that is not classified as   *)
(* rate-limiting: after k rate-limited failures followed by another kind   *)
(* of failure the wrapper has called the operation k + 1 times, waited k   *)
(* times and thrown that failure, whatever budget remains (k = 0: exactly  *)
(* one call).                                                              *)
(***************************************************************************)
C3_NoRetryOfOtherErrors ==
  (fn.last = "error" /\ calls > fn.k) =>
     /\ cwPc = "thrown"
     /\ calls = fn.k + 1
     /\ Len(waits) = fn.k
     /\ outcome.error = fn.otherError
     /\ ~isRateLimit(outcome.error)

C3_Witness ==
  /\ cwPc = "thrown" /\ fn.last = "error"
  /\ fn.k >= 1 /\ calls = fn.k + 1 /\ retries >= 1

(***************************************************************************)
(* Helpers of the deck claims                                              *)
(***************************************************************************)
Slides == presentation.slides

\* position of the slide with the given id, 0 when there is none
PositionOf(slides, id) ==
  IF \E i \in 1..Len(slides) : slides[i].id = id
  THEN CHOOSE i \in 1..Len(slides) : slides[i].id = id
  ELSE 0

\* two slides equal in every field but imageUrl
SameButImage(a, b) ==
  /\ a.id = b.id /\ a.title = b.title /\ a.layout = b.layout
  /\ a.imagePrompt = b.imagePrompt /\ a.speakerNotes = b.speakerNotes

\* the slides of `old` that are still in `new` keep their relative order
OrderKept(old, new) ==
  \A i, j \in 1..Len(old) :
    (i < j /\ PositionOf(new, old[i].id) > 0 /\ PositionOf(new, old[j].id) > 0)
      => PositionOf(new, old[i].id) < PositionOf(new, old[j].id)

(***************************************************************************)
(* C4 -- slide ids are unique within the deck in every reachable state of  *)
(* the App: no two positions of presentation.slides hold the same id,      *)
(* whatever appends, image merges, edits, regenerations and Start New      *)
(* resets have happened.                                                   *)
(***************************************************************************)
C4_UniqueIds ==
  \A i, j \in 1..Len(Slides) : i # j => Slides[i].id # Slides[j].id

C4_Witness ==
  /\ Len(Slides) = 2
  /\ Slides[2].title = "regenerated"
  /\ Slides[1].imageUrl # None
  /\ Slides[1].speakerNotes = "edited"

(***************************************************************************)
(* C5 -- the progressive append is idempotent by identity: appending a     *)
(* slide whose id is already in the deck leaves the deck unchanged;        *)
(* appending one whose id is new adds it at the end and changes nothing    *)
(* else; delivering the same slide twice adds it at most once.             *)
(***************************************************************************)
C5_AppendStep ==
  (Len(ops') = Len(ops) + 1 /\ ops'[Len(ops')].op = "append") =>
    LET s == ops'[Len(ops')].slide IN
      IF \E i \in 1..Len(Slides) : Slides[i].id = s.id
      THEN presentation' = presentation
      ELSE /\ presentation'.slides = Slides \o <<s>>
           /\ presentation'.title = presentation.title
           /\ presentation'.theme = presentation.theme
           /\ presentation'.backgroundImage = presentation.backgroundImage

C5_AppendIdempotent ==
  /\ [][C5_AppendStep]_vars
  /\ [](\A k \in 1..Len(ops) : ops[k].op = "append" =>
          Cardinality({i \in 1..Len(Slides) : Slides[i].id = ops[k].id}) = 1)

C5_Witness ==
  /\ Len(ops) = 2 /\ ops[1].op = "append" /\ ops[2].op = "append"
  /\ ops[1].slide = ops[2].slide
  /\ Len(before.slides) = 2
  /\ ~(\E i \in 1..2 : before.slides[i].id = ops[1].id)
  /\ Slides = before.slides \o <<ops[1].slide>>

(***************************************************************************)
(* C6 -- image merges change only the imageUrl of the slides whose id they *)
(* carry: after merging results for some of the slides of a deck, in any   *)
(* order, every targeted slide has imageUrl set and the number of slides,  *)
(* their order, every other field, every untargeted slide and the deck's   *)
(* title, theme and backgroundImage are as before the merges.              *)
(***************************************************************************)
MergedIds == { ops[k].id : k \in 1..Len(ops) }

C6_MergeFrame ==
  (\A k \in 1..Len(ops) : ops[k].op = "merge") =>
    /\ Len(Slides) = Len(before.slides)
    /\ \A i \in 1..Len(Slides) :
         /\ SameButImage(Slides[i], before.slides[i])
         /\ Slides[i].imageUrl =
              IF Slides[i].id \in MergedIds THEN ImageUrl
              ELSE before.slides[i].imageUrl
    /\ presentation.title = before.title
    /\ presentation.theme = before.theme
    /\ presentation.backgroundImage = before.backgroundImage

C6_Witness ==
  /\ Len(before.slides) = 3 /\ Len(ops) = 2
  /\ ops[1].op = "merge" /\ ops[1].id = before.slides[3].id
  /\ ops[2].op = "merge" /\ ops[2].id = before.slides[1].id
  /\ before.slides[1].speakerNotes = "edited"
  /\ before.slides[2].imageUrl = None
  /\ Slides[1].imageUrl = ImageUrl /\ Slides[3].imageUrl = ImageUrl
  /\ Slides[2] = before.slides[2]
  /\ before.theme = "dark" /\ before.backgroundImage # None

(***************************************************************************)
(* C7 -- a user field edit and an image merge on the same slide never lose *)
(* each other's write: the edit keeps the imageUrl the deck holds for the  *)
(* edited slide (also when the image landed after the render the edit      *)
(* reads from), and the merge keeps the edited field.                      *)
(***************************************************************************)
EditStep == count'.edits = count.edits + 1
MergeStep == \E t \in images : t.pc = "request" /\ images' = images \ {t}
                                 /\ presentation' # presentation

C7_NoLostWrite ==
  [][ /\ EditStep =>
           \A i \in 1..Len(Slides) :
             Slides[i].imageUrl # None =>
               \E j \in 1..Len(presentation'.slides) :
                 /\ presentation'.slides[j].id = Slides[i].id
                 /\ presentation'.slides[j].imageUrl = Slides[i].imageUrl
      /\ MergeStep =>
           \A i \in 1..Len(Slides) :
             \E j \in 1..Len(presentation'.slides) :
               SameButImage(presentation'.slides[j], Slides[i]) ]_vars

(***************************************************************************)
(* C8 -- a completing background task only patches or appends: no slide of *)
(* the deck disappears and the order is kept; when a regeneration          *)
(* completes, every slide that was in the deck immediately before, other   *)
(* than the regenerated one, is still in the deck with the same value and  *)
(* the same relative order (slides appended and images merged while the    *)
(* call was in flight are not removed or reverted).                        *)
(***************************************************************************)
BackgroundStep == stale' = stale + 1
RegenerationEnds(r) == regens' = RemoveAt(regens, r)

C8_BackgroundOnlyPatches ==
  [][ BackgroundStep =>
        /\ \A i \in 1..Len(Slides) :
             PositionOf(presentation'.slides, Slides[i].id) > 0
        /\ OrderKept(Slides, presentation'.slides)
        /\ \A r \in 1..Len(regens) :
             RegenerationEnds(r) =>
               \A i \in 1..Len(Slides) :
                 Slides[i].id # regens[r].currentSlide.id =>
                   \E j \in 1..Len(presentation'.slides) :
                     presentation'.slides[j] = Slides[i] ]_vars

(***************************************************************************)
(* C9 -- when a slide-generation run over an outline of n items ends       *)
(* without a remote failure, the deck holds exactly n slides.              *)
(***************************************************************************)
RunEndsOk(r) == runs' = RemoveAt(runs, r) /\ nextId' = nextId + 1

C9_OneSlidePerItem ==
  [][ \A r \in 1..Len(runs) :
        RunEndsOk(r) => Len(presentation'.slides) = Len(runs[r].outline) ]_vars

(***************************************************************************)
(* C10 -- within a run slides enter the deck in outline order: the k-th    *)
(* slide a run creates is the slide of outline item k, it is appended at   *)
(* the end of the deck in the step that creates it (before the next item   *)
(* is requested), slides created earlier stand at lower positions, and no  *)
(* step changes the relative order of two slides of the deck.              *)
(***************************************************************************)
C10_RunInOrder ==
  \A r \in 1..Len(runs) :
    LET run == runs[r] IN
      /\ Len(run.newSlides) < Len(run.outline)
      /\ \A k \in 1..Len(run.newSlides) :
           /\ run.newSlides[k].title = run.outline[k].title
           /\ \A m \in 1..Len(run.newSlides) :
                k < m => run.newSlides[k].id < run.newSlides[m].id
      /\ OrderKept(run.newSlides, Slides)

C10_DeckInCreationOrder ==
  \A i, j \in 1..Len(Slides) : i < j => Slides[i].id < Slides[j].id

C10_AppendStep ==
  /\ OrderKept(Slides, presentation'.slides)
  /\ nextId' # nextId =>
       /\ Len(presentation'.slides) > 0
       /\ presentation'.slides[Len(presentation'.slides)].id = nextId
       /\ \A r \in 1..Len(runs') :
            (/\ Len(runs'[r].newSlides) > 0
             /\ runs'[r].newSlides[Len(runs'[r].newSlides)].id = nextId)
              => runs'[r].pc = "pause"

C10_OutlineOrder ==
  /\ [](C10_RunInOrder /\ C10_DeckInCreationOrder)
  /\ [][C10_AppendStep]_vars

C10_Witness ==
  /\ Len(Slides) = 2
  /\ Slides[1].title = "item 1" /\ Slides[2].title = "item 2"
  /\ Slides[1].imageUrl # None
  /\ Slides[2].speakerNotes = "edited"
  /\ count.regens = 1 /\ regens = <<>>

(***************************************************************************)
(* C11 -- when the regeneration call fails (the handler shows its alert),  *)
(* the deck is left as it is: the target slide and every other slide have  *)
(* the value they had immediately before the failure was handled; the      *)
(* handler ends and nothing else of the presentation changes.              *)
(***************************************************************************)
RegenerationFails == alerts'.regen = alerts.regen + 1

C11_FailureKeepsDeck ==
  [][ RegenerationFails =>
        /\ presentation' = presentation
        /\ \E r \in 1..Len(regens) : regens' = RemoveAt(regens, r) ]_vars

C11_Witness ==
  /\ alerts.regen = 1 /\ regens = <<>>
  /\ Len(Slides) = 2
  /\ Slides[1].speakerNotes = "edited"
  /\ Slides[2].imageUrl = ImageUrl

(***************************************************************************)
(* C12 -- when a regeneration succeeds, the slide at the index it was      *)
(* requested for has the id the slide had at the request and every other   *)
(* field from the returned payload: nothing of the old slide is kept       *)
(* (imageUrl is absent when the payload has none), the layout may change.  *)
(***************************************************************************)
RegenerationSucceeds(r) ==
  /\ regens' = RemoveAt(regens, r)
  /\ alerts'.regen = alerts.regen

C12_RegeneratedSlide ==
  [][ \A r \in 1..Len(regens) :
        RegenerationSucceeds(r) =>
          \E q \in 1..Len(regens) :
            LET i == regens[q].currentSlideIndex + 1 IN
              /\ regens' = RemoveAt(regens, q)
              /\ i <= Len(presentation'.slides)
              /\ \E payload \in RegeneratedContents :
                   presentation'.slides[i] =
                     WithId(payload, regens[q].currentSlide.id) ]_vars

C12_Witness ==
  /\ count.regens = 1 /\ regens = <<>> /\ alerts.regen = 0
  /\ Len(Slides) >= 1
  /\ Slides[1].id = 1 /\ Slides[1].title = "regenerated"
  /\ Slides[1].layout = "BULLETS" /\ Slides[1].imageUrl = None
  /\ 1 \in imageCalls /\ 1 \notin imageErrors
  /\ \A t \in images : t.id # 1

(***************************************************************************)
(* C13 -- an image merge and a user field edit change neither the id nor   *)
(* the layout of any slide: every position of the deck that is there       *)
(* before and after such a step holds a slide with the same id, and every  *)
(* slide that is in the deck before and after has the same layout.         *)
(***************************************************************************)
C13_IdLayoutFrame ==
  [][ (EditStep \/ MergeStep) =>
        /\ \A i \in 1..Len(Slides) :
             i <= Len(presentation'.slides) =>
               presentation'.slides[i].id = Slides[i].id
        /\ \A i \in 1..Len(Slides) : \A j \in 1..Len(presentation'.slides) :
             presentation'.slides[j].id = Slides[i].id =>
               presentation'.slides[j].layout = Slides[i].layout ]_vars

(***************************************************************************)
(* C14 -- an image result whose slide id is not in the deck when it        *)
(* arrives is a no-op: the presentation is unchanged (no slide added, none *)
(* modified), also when the deck it was requested for has been reset by    *)
(* Start New and the result arrives against the new deck.                  *)
(***************************************************************************)
ImageArrives(t) ==
  /\ t.pc = "request"
  /\ images' = images \ {t}
  /\ imageErrors' = imageErrors

C14_StaleImageNoOp ==
  [][ \A t \in images :
        (ImageArrives(t) /\ PositionOf(Slides, t.id) = 0)
          => presentation' = presentation ]_vars

\* the last step was an image arriving at the empty deck Start New left
C14_Witness ==
  /\ Slides = <<>> /\ presentation.title = "Untitled"
  /\ rendered.presentation.title = "Untitled" /\ stale = 1
  /\ runs = <<>> /\ regens = <<>> /\ outlineCalls = 0
  /\ count.outlines = 1 /\ count.regens = 0
  /\ alerts = [outline |-> 0, slides |-> 0, regen |-> 0]
  /\ imageCalls # {} /\ images = {} /\ imageErrors = {}

(***************************************************************************)
(* C15 -- the image merge is idempotent and order-independent: merging the *)
(* same (id, imageUrl) result twice gives the deck that merging it once    *)
(* gives, and merging the results of two slide ids gives the same deck in  *)
(* either arrival order.                                                   *)
(***************************************************************************)
C15_MergeAlgebra ==
  (Len(ops) = 2 /\ ops[1].op = "merge" /\ ops[2].op = "merge") =>
    /\ ops[1].id = ops[2].id =>
         presentation = MergeUpdate(before, ops[1].id, ImageUrl)
    /\ presentation =
         MergeUpdate(MergeUpdate(before, ops[2].id, ImageUrl),
                     ops[1].id, ImageUrl)

C15_Witness ==
  /\ Len(ops) = 2 /\ ops[1].op = "merge" /\ ops[2].op = "merge"
  /\ ops[1].id = ops[2].id
  /\ Len(before.slides) = 2
  /\ before.slides[2].id = ops[1].id /\ before.slides[2].imageUrl = None
  /\ Slides[2].imageUrl = ImageUrl
  /\ Slides[1] = before.slides[1]

(***************************************************************************)
(* C16 -- a failed image request is isolated to its slide: the step that   *)
(* handles it changes neither the slide-generation runs, nor the           *)
(* generation step, nor the deck, shows no alert, leaves the other image   *)
(* requests as they are, and its slide (if in the deck) has no imageUrl.   *)
(***************************************************************************)
C16_ImageFailureIsolated ==
  [][ imageErrors' # imageErrors =>
        \E t \in images :
          /\ t.pc = "request"
          /\ imageErrors' = imageErrors \cup {t.id}
          /\ images' = images \ {t}
          /\ runs' = runs /\ regens' = regens /\ step' = step
          /\ presentation' = presentation
          /\ alerts' = alerts
          /\ \A i \in 1..Len(presentation'.slides) :
               presentation'.slides[i].id = t.id =>
                 presentation'.slides[i].imageUrl = None ]_vars

\* the image of slide 1 has failed while the run is requesting item 2
C16_Witness ==
  /\ imageErrors = {1}
  /\ Len(runs) = 1 /\ runs[1].pc = "call" /\ Len(runs[1].newSlides) = 1
  /\ step = "GENERATING_SLIDES"
  /\ Len(Slides) = 1 /\ Slides[1].id = 1 /\ Slides[1].imageUrl = None

(***************************************************************************)
(* C17 -- every slide of the deck with layout IMAGE_TEXT and an image      *)
(* prompt, put there by content generation or by regeneration, gets an     *)
(* image request, and the image of a request that succeeded is in the      *)
(* slide.  Requests are issued by the image timers only, so a slide for    *)
(* which no request was issued and no timer is pending never gets one:     *)
(* stated on states, every such slide has its request issued or its timer  *)
(* pending, and once its request has succeeded it has its imageUrl.        *)
(***************************************************************************)
WantsImage(slide) == slide.layout = "IMAGE_TEXT" /\ slide.imagePrompt # None

C17_ImageRequested ==
  \A i \in 1..Len(Slides) :
    WantsImage(Slides[i]) =>
      /\ \/ Slides[i].id \in imageCalls
         \/ \E t \in images : t.id = Slides[i].id
      /\ (/\ Slides[i].id \in imageCalls
          /\ Slides[i].id \notin imageErrors
          /\ \A t \in images : t.id # Slides[i].id)
           => Slides[i].imageUrl # None

(***************************************************************************)
(* C18 -- when the slide-content call of a run fails (the handler shows    *)
(* its alert), the deck is unchanged: the slides appended for the earlier  *)
(* items keep their values and order, no slide is created for the failed   *)
(* item, and the run ends there, requesting no later item.                 *)
(***************************************************************************)
ContentFails == alerts'.slides = alerts.slides + 1

C18_ContentFailureKeepsDeck ==
  [][ ContentFails =>
        /\ presentation' = presentation
        /\ nextId' = nextId /\ images' = images
        /\ \E r \in 1..Len(runs) :
             runs[r].pc = "call" /\ runs' = RemoveAt(runs, r) ]_vars

\* the call for item 2 has failed; the slide of item 1 is in the deck
C18_Witness ==
  /\ alerts.slides = 1 /\ runs = <<>>
  /\ Len(outline) = 2
  /\ Len(Slides) = 1 /\ Slides[1].title = "item 1"
  /\ nextId = 2

(***************************************************************************)
(* C19 -- after a failed outline step or a failed slide-generation step    *)
(* the workflow is idle and retryable: in the state the failure leaves,    *)
(* the generation step is IDLE and the button of the same step is offered  *)
(* and enabled (Generate Outline after an outline failure; Generate Slides *)
(* after a slide-content failure, also when slides were appended before).  *)
(***************************************************************************)
C19_RetryableAfterFailure ==
  [][ /\ alerts'.outline > alerts.outline =>
           (step' = "IDLE" /\ GenerateOutlineEnabled(View'))
      /\ alerts'.slides > alerts.slides =>
           (step' = "IDLE" /\ GenerateSlidesEnabled(View')) ]_vars

(***************************************************************************)
(* C20 -- a response with no text, or whose payload does not match the     *)
(* schema of the function, makes generateOutline, generateSlideContent and *)
(* regenerateSlide fail: a value they return is the payload of a JSON text *)
(* and matches the schema, so every item of the outline has a title and a  *)
(* description and every slide of the deck has one of the seven layouts.   *)
(***************************************************************************)
C20_SchemaValidated ==
  /\ svc.pc \in {"returned", "delivered"} =>
       /\ ~svc.response.rejected
       /\ svc.response.text.kind = "json"
       /\ Conforms(svc.fn, svc.result)
  /\ \A i \in 1..Len(outline) :
       outline[i].title # None /\ outline[i].description # None
  /\ \A i \in 1..Len(Slides) : Slides[i].layout \in SchemaLayouts

(***************************************************************************)
(* C21 -- at most one slide-generation loop is running and at most one     *)
(* slide-content request is in flight at any time, whatever the user does  *)
(* (regeneration during a run, Start New during a run, a new outline       *)
(* afterwards): slide text is generated one item at a time.                *)
(***************************************************************************)
C21_OneLoop ==
  /\ Len(runs) <= 1
  /\ Cardinality({ r \in 1..Len(runs) : runs[r].pc = "call" }) <= 1

(***************************************************************************)
(* C22 -- the image request of the N-th image-eligible slide of a run      *)
(* (layout IMAGE_TEXT with an imagePrompt) is scheduled with a delay of    *)
(* 2000 ms times N, N being the slide's position among the image-requiring *)
(* slides of the run, not its position among all its slides.               *)
(***************************************************************************)
\* the number of image-requiring slides among the given slides
ImageCount(slides) ==
  Cardinality({ i \in 1..Len(slides) : NeedsImage(slides[i]) })

\* the image timers set by the step
Scheduled == { t \in images' \ images : t.pc = "timer" }

\* the run whose await has resolved in the step that created slide `id`
CreatedBy(r, id) ==
  /\ runs[r].pc = "call"
  /\ nextId = id /\ nextId' = id + 1
  /\ \/ runs' = RemoveAt(runs, r)
     \/ /\ Len(runs') = Len(runs)
        /\ runs'[r].newSlides # runs[r].newSlides

C22_DelayByImagePosition ==
  [][ \A t \in Scheduled : \E r \in 1..Len(runs) :
        /\ CreatedBy(r, t.id)
        /\ t.delay = 2000 * (ImageCount(runs[r].newSlides) + 1) ]_vars

\* as amended: the factor is the slide's position among all slides of the
\* run, which is at least its position among the image-requiring ones
C22_DelayByRunPosition ==
  [][ \A t \in Scheduled : \E r \in 1..Len(runs) :
        /\ CreatedBy(r, t.id)
        /\ t.delay = 2000 * (Len(runs[r].newSlides) + 1)
        /\ t.delay >= 2000 * (ImageCount(runs[r].newSlides) + 1) ]_vars

\* slide 2 is the first image-requiring slide of its run: 4000 ms
C22_Witness ==
  /\ Len(Slides) = 2
  /\ ~NeedsImage(Slides[1]) /\ NeedsImage(Slides[2])
  /\ Slides[1].id = 1 /\ Slides[2].id = 2
  /\ count.regens = 0 /\ count.edits = 0
  /\ \E t \in images : t.id = 2 /\ t.pc = "timer" /\ t.delay = 4000

(***************************************************************************)
(* C23 -- whenever the deck is not empty, currentSlideIndex is a valid     *)
(* position of it: 0 <= currentSlideIndex < presentation.slides.length in  *)
(* every reachable state (also after Start New and after a regeneration    *)
(* completes), so the editor never reads slides[currentSlideIndex] as      *)
(* undefined.                                                              *)
(***************************************************************************)
C23_IndexValid ==
  /\ Len(Slides) > 0 => currentSlideIndex \in 0..(Len(Slides) - 1)
  /\ ~Crashed

(***************************************************************************)
(* C24 -- after Start New has reset the deck, the deck holds only slides   *)
(* of runs started after the reset: a loop that was running when Start New *)
(* was pressed never appends a slide to the new deck, which stays empty    *)
(* until a new run is started.                                             *)
(***************************************************************************)
C24_NoAppendBySupersededRun ==
  [][ \A r \in 1..Len(runs) :
        (CreatedBy(r, nextId) /\ presentation'.slides # Slides)
          => runs[r].deck = count.resets ]_vars

(***************************************************************************)
(* C25 -- the generation step reflects the work in flight: while a         *)
(* slide-generation loop is running the step is not IDLE, and the step is  *)
(* IDLE only when no outline, slide-generation or regeneration call is in  *)
(* flight (a regeneration that ends during a running loop does not set     *)
(* the step to IDLE).                                                      *)
(***************************************************************************)
C25_StepReflectsWork ==
  /\ runs # <<>> => step # "IDLE"
  /\ step = "IDLE" => (outlineCalls = 0 /\ runs = <<>> /\ regens = <<>>)

(***************************************************************************)
(* C26 -- in every reachable state a slide that has imageUrl set has       *)
(* layout IMAGE_TEXT: a late image result for a slide that was regenerated *)
(* into another layout while the request was pending does not set          *)
(* imageUrl on it.                                                         *)
(***************************************************************************)
C26_ImageOnlyOnImageText ==
  \A i \in 1..Len(Slides) :
    Slides[i].imageUrl # None => Slides[i].layout = "IMAGE_TEXT"

(***************************************************************************)
(* C27 -- for every slide id at most one image request is ever issued, and *)
(* one is issued only for a slide whose generated content had layout       *)
(* IMAGE_TEXT and an imagePrompt; the request still fires when the run     *)
(* that scheduled it has failed or finished: a timer, once set, is never   *)
(* cancelled, it stays pending or fires.                                   *)
(***************************************************************************)
\* the generateImage requests issued by the step
Issued == { t \in images' \ images : t.pc = "request" }

C27_RequestStep ==
  /\ \A t \in Issued :
       /\ t.id \notin imageCalls /\ t.id \in imageCalls'
       /\ [t EXCEPT !.pc = "timer"] \in images
       /\ [t EXCEPT !.pc = "timer"] \notin images'
  /\ imageCalls' # imageCalls =>
       \E t \in Issued : imageCalls' = imageCalls \cup {t.id}
  /\ \A t \in Scheduled :
       /\ t.prompt # None
       /\ t.id \notin imageCalls
       /\ \A u \in images : u.id # t.id
       /\ \E r \in 1..Len(runs) : CreatedBy(r, t.id)
       /\ \E i \in 1..Len(presentation'.slides) :
            /\ presentation'.slides[i].id = t.id
            /\ presentation'.slides[i].layout = "IMAGE_TEXT"
            /\ presentation'.slides[i].imagePrompt = t.prompt
  /\ \A t \in images :
       t.pc = "timer" =>
         (t \in images' \/ [t EXCEPT !.pc = "request"] \in images')

C27_OneImageRequest ==
  /\ [][C27_RequestStep]_vars
  /\ [](\A t, u \in images : t.id = u.id => t = u)
  /\ [](\A t \in images : (t.pc = "timer") <=> (t.id \notin imageCalls))

\* the image of slide 2 was requested, and merged, after its run had ended
\* (the timer of the last slide is set in the step that ends the run)
C27_Witness ==
  /\ runs = <<>> /\ count.runs = 1
  /\ 2 \in imageCalls
  /\ Len(Slides) = 2 /\ Slides[2].id = 2 /\ Slides[2].imageUrl = ImageUrl

(***************************************************************************)
(* C28 -- every started operation ends, given that each remote call and    *)
(* each wait returns: callWithRetry finishes after at most retries + 1     *)
(* calls (the budget goes down by one on each retry), and every handler    *)
(* that leaves IDLE (outline generation, slide generation, regeneration)   *)
(* ends and sets the generation step back to IDLE as it ends, on success   *)
(* and on failure alike.  A render error unmounts the component (C23):     *)
(* there is no generation step to set from then on.                        *)
(***************************************************************************)
Retrying == cwPc \in {"call", "wait"}

C28_RetryBudget ==
  /\ calls <= budget + 1
  /\ retries >= 0
  /\ cwPc = "call" => retries = budget - calls
  /\ cwPc = "wait" => retries = budget - calls + 1 /\ retries > 0

\* a handler ends in this step
HandlerEnds ==
  \/ outlineCalls' < outlineCalls
  \/ Len(runs') < Len(runs)
  \/ Len(regens') < Len(regens)

\* a handler starts in this step
HandlerStarts ==
  \/ outlineCalls' > outlineCalls
  \/ Len(runs') > Len(runs)
  \/ Len(regens') > Len(regens)

C28_HandlerStep ==
  /\ HandlerEnds => step' = "IDLE"
  /\ HandlerStarts => step' # "IDLE"
  /\ retries' # retries => (retries' = retries - 1 /\ cwPc = "wait")

C28_Termination ==
  /\ []C28_RetryBudget
  /\ [][C28_HandlerStep]_vars
  /\ Retrying ~> Finished
  /\ (outlineCalls > 0) ~> (outlineCalls = 0 \/ Crashed)
  /\ (runs # <<>>) ~> (runs = <<>> \/ Crashed)
  /\ (regens # <<>>) ~> (regens = <<>> \/ Crashed)
  /\ (step # "IDLE") ~> (step = "IDLE" \/ Crashed)

\* a run has ended on a failed request and a regeneration has failed: both
\* handlers have ended and the step is IDLE
C28_Witness ==
  /\ alerts.slides = 1 /\ alerts.regen = 1
  /\ runs = <<>> /\ regens = <<>> /\ outlineCalls = 0
  /\ step = "IDLE" /\ ~Crashed

(***************************************************************************)
(* C29 -- the outline step changes only the outline, the generation step   *)
(* and the workflow step: on success it stores the returned items as the   *)
(* outline and moves the workflow to EDITOR; on failure (file read, remote *)
(* call or parse) the outline and the workflow step are unchanged; in both *)
(* cases the deck (slides, title, theme, backgroundImage) is unchanged;    *)
(* with an empty text prompt or no file selected the handler makes no      *)
(* remote call and changes nothing.                                        *)
(***************************************************************************)
\* the input the click is handled with has nothing to submit
BlankInput(inp) ==
  \/ inp.inputMode = "text" /\ inp.prompt \in {"", " "}
  \/ inp.inputMode = "file" /\ inp.fileInput = None

\* what the outline step never changes
OutlineFrame ==
  /\ presentation' = presentation
  /\ currentSlideIndex' = currentSlideIndex /\ refinePrompt' = refinePrompt
  /\ input' = input
  /\ runs' = runs /\ images' = images /\ regens' = regens /\ nextId' = nextId
  /\ imageCalls' = imageCalls /\ imageErrors' = imageErrors

\* the click on the button is handled
C29_ClickStep ==
  count'.outlines # count.outlines =>
    /\ OutlineFrame
    /\ outline' = outline /\ workflowStep' = workflowStep
    /\ alerts' = alerts
    /\ IF BlankInput(rendered.input)
       THEN step' = step /\ outlineCalls' = outlineCalls
       ELSE /\ outlineCalls' = outlineCalls + 1
            /\ step' = IF rendered.input.inputMode = "file"
                       THEN "PARSING_FILE" ELSE "GENERATING_OUTLINE"

\* the call in flight ends
C29_EndStep ==
  outlineCalls' # outlineCalls /\ count'.outlines = count.outlines =>
    /\ OutlineFrame
    /\ outlineCalls' = outlineCalls - 1
    /\ step' = "IDLE"
    /\ IF alerts' # alerts
       THEN /\ alerts' = [alerts EXCEPT !.outline = @ + 1]
            /\ outline' = outline /\ workflowStep' = workflowStep
       ELSE outline' \in Outlines /\ workflowStep' = "EDITOR"

C29_OutlineFrame == [][C29_ClickStep /\ C29_EndStep]_vars

\* a click with a prompt of blanks only, on a deck and an outline generated
\* before, was handled
C29_Witness ==
  /\ count.outlines = 1 /\ outlineCalls = 0
  /\ input.inputMode = "text" /\ input.prompt = " "
  /\ workflowStep = "INPUT" /\ step = "IDLE" /\ alerts.outline = 0
  /\ Len(outline) = 2 /\ Len(Slides) = 1

(***************************************************************************)
(* C30 -- when callWithRetry fails, the error it propagates is the error   *)
(* of its last call of the operation (not the first rate-limit error);     *)
(* when it succeeds, the value it returns is the value of the first call   *)
(* that succeeded; the operation is never called again after a success.    *)
(***************************************************************************)
\* no call up to the n-th has succeeded
NoSuccessUpTo(n) == \A m \in 1..n : ~FnResult(m).ok

C30_CallStep ==
  calls' # calls =>
    /\ calls' = calls + 1
    /\ cwPc = "call"
    /\ NoSuccessUpTo(calls)

C30_ResultOfLastCall ==
  /\ [](Finished =>
          /\ calls >= 1
          /\ outcome = FnResult(calls)
          /\ NoSuccessUpTo(calls - 1)
          /\ (cwPc = "returned") <=> outcome.ok)
  /\ [][C30_CallStep]_vars

\* two rate-limited failures, then a failure of another kind: the third
\* error is the one thrown
C30_Witness ==
  /\ cwPc = "thrown" /\ fn.last = "error" /\ fn.k = 2 /\ budget = 3
  /\ calls = 3 /\ outcome.n = 3
  /\ outcome.error = fn.otherError /\ outcome.error # FnResult(1).error

====
